---- MODULE Spec2Model ----
(***************************************************************************)
(* Model of libcore/time.rs: the Duration value type, its constructors,    *)
(* accessors, checked arithmetic, the iterator sum, the Debug rendering    *)
(* and the multiplication and division by an f64.                          *)
(*                                                                         *)
(* The program computes on u32, u64 and u128 values.  TLC's integers are   *)
(* 32 bits wide, so every program integer is modelled as an unbounded      *)
(* natural number written in base Radix: a sequence of limbs, least        *)
(* significant first, without a most significant zero limb (the number 0   *)
(* is the empty sequence).  Two such numbers are equal exactly when the    *)
(* sequences are equal.  The widths of the program's types are applied     *)
(* explicitly where the code narrows, wraps or checks.                     *)
(***************************************************************************)
EXTENDS Integers, Sequences, FiniteSets, TLC

(***************************************************************************)
(* Unbounded naturals                                                      *)
(***************************************************************************)
Radix == 10000

Max2(i, j) == IF i >= j THEN i ELSE j

Limb(a, i) == IF i <= Len(a) THEN a[i] ELSE 0

RECURSIVE Norm(_)
Norm(a) ==
    IF a = <<>> THEN a
    ELSE IF a[Len(a)] = 0 THEN Norm(SubSeq(a, 1, Len(a) - 1))
    ELSE a

RECURSIVE U(_)
\* the natural number n (n a TLC integer)
U(n) == IF n = 0 THEN <<>> ELSE <<n % Radix>> \o U(n \div Radix)

RECURSIVE AddFrom(_, _, _, _)
AddFrom(a, b, i, c) ==
    IF i > Max2(Len(a), Len(b))
    THEN (IF c = 0 THEN <<>> ELSE <<c>>)
    ELSE LET t == Limb(a, i) + Limb(b, i) + c
         IN  <<t % Radix>> \o AddFrom(a, b, i + 1, t \div Radix)

uAdd(a, b) == AddFrom(a, b, 1, 0)

RECURSIVE CmpFrom(_, _, _)
\* -1, 0, 1 comparing limbs i, i-1, ..., 1 of two numbers of equal length
CmpFrom(a, b, i) ==
    IF i = 0 THEN 0
    ELSE IF a[i] < b[i] THEN -1
    ELSE IF a[i] > b[i] THEN 1
    ELSE CmpFrom(a, b, i - 1)

uCmp(a, b) ==
    IF Len(a) < Len(b) THEN -1
    ELSE IF Len(a) > Len(b) THEN 1
    ELSE CmpFrom(a, b, Len(a))

uLt(a, b) == uCmp(a, b) < 0
uLe(a, b) == uCmp(a, b) <= 0

RECURSIVE SubFrom(_, _, _, _)
SubFrom(a, b, i, c) ==
    IF i > Len(a) THEN <<>>
    ELSE LET t == a[i] - Limb(b, i) - c
         IN  IF t < 0 THEN <<t + Radix>> \o SubFrom(a, b, i + 1, 1)
             ELSE <<t>> \o SubFrom(a, b, i + 1, 0)

\* a - b for b <= a
uSub(a, b) == Norm(SubFrom(a, b, 1, 0))

RECURSIVE MulLimbFrom(_, _, _, _)
MulLimbFrom(a, m, i, c) ==
    IF i > Len(a)
    THEN (IF c = 0 THEN <<>> ELSE <<c>>)
    ELSE LET t == a[i] * m + c
         IN  <<t % Radix>> \o MulLimbFrom(a, m, i + 1, t \div Radix)

\* a * m for one limb m
MulLimb(a, m) == IF m = 0 THEN <<>> ELSE MulLimbFrom(a, m, 1, 0)

RECURSIVE MulFrom(_, _, _)
MulFrom(a, b, j) ==
    IF j > Len(b) THEN <<>>
    ELSE LET rest == MulFrom(a, b, j + 1)
             high == IF rest = <<>> THEN <<>> ELSE <<0>> \o rest
         IN  uAdd(MulLimb(a, b[j]), high)

uMul(a, b) == IF a = <<>> \/ b = <<>> THEN <<>> ELSE MulFrom(a, b, 1)

RECURSIVE QSearch(_, _, _, _)
\* the largest limb q in lo..hi with q * b <= r (lo satisfies it)
QSearch(r, b, lo, hi) ==
    IF lo = hi THEN lo
    ELSE LET mid == (lo + hi + 1) \div 2
         IN  IF uLe(MulLimb(b, mid), r) THEN QSearch(r, b, mid, hi)
             ELSE QSearch(r, b, lo, mid - 1)

RECURSIVE DivFrom(_, _, _, _)
\* long division of limbs i..1 of a by b, with running remainder r < b
DivFrom(a, b, i, r) ==
    IF i = 0 THEN [q |-> <<>>, r |-> r]
    ELSE LET r1 == Norm(<<a[i]>> \o r)
             q1 == QSearch(r1, b, 0, Radix - 1)
             r2 == uSub(r1, MulLimb(b, q1))
             lo == DivFrom(a, b, i - 1, r2)
         IN  [q |-> lo.q \o <<q1>>, r |-> lo.r]

\* truncating quotient and remainder, for b > 0
uDiv(a, b) == IF uLt(a, b) THEN <<>> ELSE Norm(DivFrom(a, b, Len(a), <<>>).q)
uRem(a, b) == IF uLt(a, b) THEN a ELSE DivFrom(a, b, Len(a), <<>>).r

\* 2^32, 2^64 and 2^128 by repeated squaring of 2^16
TwoTo32 == uMul(U(65536), U(65536))
TwoTo64 == uMul(TwoTo32, TwoTo32)
TwoTo128 == uMul(TwoTo64, TwoTo64)

Zero == <<>>
One == U(1)

(***************************************************************************)
(* Integer types                                                           *)
(***************************************************************************)
U32_MAX == uSub(TwoTo32, One)
U64_MAX == uSub(TwoTo64, One)

fits_u32(x) == uLt(x, TwoTo32)
fits_u64(x) == uLt(x, TwoTo64)

\* `x as u32`, `x as u64`: the low bits
as_u32(x) == uRem(x, TwoTo32)
as_u64(x) == uRem(x, TwoTo64)

\* Unchecked +, - and * leave the type's range only by wrapping (they
\* panic instead in a build with overflow checks); the *_ovf operators
\* below say which of them left the range.
wrapping_sub(a, b, modulus) ==
    IF uLe(b, a) THEN uSub(a, b) ELSE uSub(uAdd(a, modulus), b)

\* The record of an Option or of a call that may panic
\*   kind "Some" / "None": an Option; "Val": a returned value;
\*   "Panic": the call aborted and returned nothing.
NoVal == [secs |-> Zero, nanos |-> Zero]
Some(v) == [kind |-> "Some", val |-> v]
None == [kind |-> "None", val |-> NoVal]
Val(v) == [kind |-> "Val", val |-> v]
Panic == [kind |-> "Panic", val |-> NoVal]

SomeInt(x) == [kind |-> "Some", val |-> x]
NoneInt == [kind |-> "None", val |-> Zero]

u64_checked_add(a, b) ==
    LET s == uAdd(a, b) IN IF fits_u64(s) THEN SomeInt(s) ELSE NoneInt

u64_checked_sub(a, b) ==
    IF uLe(b, a) THEN SomeInt(uSub(a, b)) ELSE NoneInt

u64_checked_mul(a, b) ==
    LET m == uMul(a, b) IN IF fits_u64(m) THEN SomeInt(m) ELSE NoneInt

(***************************************************************************)
(* Duration                                                                *)
(***************************************************************************)
NANOS_PER_SEC == U(1000000000)
NANOS_PER_MILLI == U(1000000)
NANOS_PER_MICRO == U(1000)
MILLIS_PER_SEC == U(1000)
MICROS_PER_SEC == U(1000000)

Duration(secs, nanos) == [secs |-> secs, nanos |-> nanos]

\* #[derive(Default)]
DefaultDuration == Duration(Zero, Zero)

\* #[derive(PartialOrd, Ord)]: lexicographic on (secs, nanos)
DurationLe(a, b) ==
    \/ uLt(a.secs, b.secs)
    \/ a.secs = b.secs /\ uLe(a.nanos, b.nanos)

\* new that drops the whole seconds of its nanosecond argument
new_no_carry(secs, nanos) ==
    Val(Duration(secs, uRem(nanos, NANOS_PER_SEC)))

new(secs, nanos) ==
    LET s == u64_checked_add(secs, uDiv(nanos, NANOS_PER_SEC))
    IN  IF s.kind = "None" THEN Panic
        ELSE Val(Duration(s.val, uRem(nanos, NANOS_PER_SEC)))

from_secs(secs) == Duration(secs, Zero)

from_millis(millis) ==
    Duration(uDiv(millis, MILLIS_PER_SEC),
             as_u32(uMul(as_u32(uRem(millis, MILLIS_PER_SEC)), NANOS_PER_MILLI)))

\* the u32 steps of from_millis that leave the 32-bit range
from_millis_ovf(millis) ==
    LET r == uRem(millis, MILLIS_PER_SEC)
    IN  (IF fits_u32(r) THEN {} ELSE {"as u32"})
        \cup (IF fits_u32(uMul(as_u32(r), NANOS_PER_MILLI)) THEN {} ELSE {"mul"})

\* from_micros that scales the remainder as from_millis does
from_micros_milli_scale(micros) ==
    Duration(uDiv(micros, MICROS_PER_SEC),
             as_u32(uMul(as_u32(uRem(micros, MICROS_PER_SEC)), NANOS_PER_MILLI)))

from_micros(micros) ==
    Duration(uDiv(micros, MICROS_PER_SEC),
             as_u32(uMul(as_u32(uRem(micros, MICROS_PER_SEC)), NANOS_PER_MICRO)))

from_micros_ovf(micros) ==
    LET r == uRem(micros, MICROS_PER_SEC)
    IN  (IF fits_u32(r) THEN {} ELSE {"as u32"})
        \cup (IF fits_u32(uMul(as_u32(r), NANOS_PER_MICRO)) THEN {} ELSE {"mul"})

from_nanos(nanos) ==
    Duration(uDiv(nanos, NANOS_PER_SEC), as_u32(uRem(nanos, NANOS_PER_SEC)))

from_nanos_ovf(nanos) ==
    IF fits_u32(uRem(nanos, NANOS_PER_SEC)) THEN {} ELSE {"as u32"}

as_secs(self) == self.secs
subsec_millis(self) == uDiv(self.nanos, NANOS_PER_MILLI)
subsec_micros(self) == uDiv(self.nanos, NANOS_PER_MICRO)
subsec_nanos(self) == self.nanos

\* u128 results; as_u128 applied to the exact value
as_millis(self) ==
    uRem(uAdd(uMul(self.secs, MILLIS_PER_SEC), uDiv(self.nanos, NANOS_PER_MILLI)), TwoTo128)
as_micros(self) ==
    uRem(uAdd(uMul(self.secs, MICROS_PER_SEC), uDiv(self.nanos, NANOS_PER_MICRO)), TwoTo128)
as_nanos(self) ==
    uRem(uAdd(uMul(self.secs, NANOS_PER_SEC), self.nanos), TwoTo128)

\* checked_add that leaves the carried second in the nanosecond field
checked_add_uncarried(self, rhs) ==
    LET s0 == u64_checked_add(self.secs, rhs.secs)
    IN  IF s0.kind = "Some"
        THEN Some(Duration(s0.val, as_u32(uAdd(self.nanos, rhs.nanos))))
        ELSE None

\* checked_add whose carry into the seconds wraps instead of failing
checked_add_wrapping_carry(self, rhs) ==
    LET s0 == u64_checked_add(self.secs, rhs.secs)
        nanos0 == as_u32(uAdd(self.nanos, rhs.nanos))
    IN  IF s0.kind = "Some"
        THEN IF uLe(NANOS_PER_SEC, nanos0)
             THEN Some(Duration(as_u64(uAdd(s0.val, One)), uSub(nanos0, NANOS_PER_SEC)))
             ELSE Some(Duration(s0.val, nanos0))
        ELSE None

\* checked_add whose seconds addition wraps instead of failing
checked_add_wrapping_secs(self, rhs) ==
    LET s0 == as_u64(uAdd(self.secs, rhs.secs))
        nanos0 == as_u32(uAdd(self.nanos, rhs.nanos))
    IN  IF uLe(NANOS_PER_SEC, nanos0)
        THEN LET new_secs == u64_checked_add(s0, One)
             IN  IF new_secs.kind = "Some"
                 THEN Some(Duration(new_secs.val, uSub(nanos0, NANOS_PER_SEC)))
                 ELSE None
        ELSE Some(Duration(s0, nanos0))

checked_add(self, rhs) ==
    LET s0 == u64_checked_add(self.secs, rhs.secs)
        nanos0 == as_u32(uAdd(self.nanos, rhs.nanos))
    IN  IF s0.kind = "Some"
        THEN IF uLe(NANOS_PER_SEC, nanos0)
             THEN LET nanos == wrapping_sub(nanos0, NANOS_PER_SEC, TwoTo32)
                      new_secs == u64_checked_add(s0.val, One)
                  IN  IF new_secs.kind = "Some"
                      THEN Some(Duration(new_secs.val, nanos))
                      ELSE None
             ELSE Some(Duration(s0.val, nanos0))
        ELSE None

\* the u32 steps of checked_add that leave the 32-bit range
checked_add_ovf(self, rhs) ==
    IF fits_u32(uAdd(self.nanos, rhs.nanos)) THEN {} ELSE {"add"}

\* checked_sub that borrows a second without taking it from the seconds
checked_sub_free_borrow(self, rhs) ==
    LET s0 == u64_checked_sub(self.secs, rhs.secs)
    IN  IF s0.kind = "Some"
        THEN IF uLe(rhs.nanos, self.nanos)
             THEN Some(Duration(s0.val, uSub(self.nanos, rhs.nanos)))
             ELSE IF u64_checked_sub(s0.val, One).kind = "Some"
                  THEN Some(Duration(s0.val,
                           uSub(uAdd(self.nanos, NANOS_PER_SEC), rhs.nanos)))
                  ELSE None
        ELSE None

\* checked_sub that borrows also when the nanosecond fields are equal
checked_sub_strict(self, rhs) ==
    LET s0 == u64_checked_sub(self.secs, rhs.secs)
    IN  IF s0.kind = "Some"
        THEN IF uLt(rhs.nanos, self.nanos)
             THEN Some(Duration(s0.val, uSub(self.nanos, rhs.nanos)))
             ELSE LET sub_secs == u64_checked_sub(s0.val, One)
                  IN  IF sub_secs.kind = "Some"
                      THEN Some(Duration(sub_secs.val,
                               uSub(uAdd(self.nanos, NANOS_PER_SEC), rhs.nanos)))
                      ELSE None
        ELSE None

checked_sub(self, rhs) ==
    LET s0 == u64_checked_sub(self.secs, rhs.secs)
    IN  IF s0.kind = "Some"
        THEN IF uLe(rhs.nanos, self.nanos)
             THEN Some(Duration(s0.val, uSub(self.nanos, rhs.nanos)))
             ELSE LET sub_secs == u64_checked_sub(s0.val, One)
                  IN  IF sub_secs.kind = "Some"
                      THEN Some(Duration(sub_secs.val,
                               wrapping_sub(as_u32(uAdd(self.nanos, NANOS_PER_SEC)),
                                            rhs.nanos, TwoTo32)))
                      ELSE None
        ELSE None

checked_sub_ovf(self, rhs) ==
    IF uLe(rhs.nanos, self.nanos) THEN {}
    ELSE (IF fits_u32(uAdd(self.nanos, NANOS_PER_SEC)) THEN {} ELSE {"add"})
         \cup (IF uLe(rhs.nanos, as_u32(uAdd(self.nanos, NANOS_PER_SEC)))
               THEN {} ELSE {"sub"})

\* the locals of checked_mul; total_nanos is the exact product
checked_mul_locals(self, rhs) ==
    LET total_nanos == uMul(self.nanos, rhs)
        t == as_u64(total_nanos)
    IN  [total_nanos |-> total_nanos,
         extra_secs |-> uDiv(t, NANOS_PER_SEC),
         nanos_wide |-> uRem(t, NANOS_PER_SEC),
         nanos |-> as_u32(uRem(t, NANOS_PER_SEC))]

\* checked_mul that drops the seconds carried out of the nanoseconds
checked_mul_no_extra(self, rhs) ==
    LET l == checked_mul_locals(self, rhs)
        m == u64_checked_mul(self.secs, rhs)
    IN  IF m.kind = "Some" THEN Some(Duration(m.val, l.nanos)) ELSE None

checked_mul(self, rhs) ==
    LET l == checked_mul_locals(self, rhs)
        m == u64_checked_mul(self.secs, rhs)
        secs == IF m.kind = "Some" THEN u64_checked_add(m.val, l.extra_secs)
                ELSE NoneInt
    IN  IF secs.kind = "Some" THEN Some(Duration(secs.val, l.nanos)) ELSE None

checked_mul_ovf(self, rhs) ==
    LET l == checked_mul_locals(self, rhs)
    IN  (IF fits_u64(l.total_nanos) THEN {} ELSE {"mul"})
        \cup (IF fits_u32(l.nanos_wide) THEN {} ELSE {"as u32"})

\* checked_div that promotes the whole seconds count, not its remainder
checked_div_locals_whole(self, rhs) ==
    LET secs == uDiv(self.secs, rhs)
        prod == uMul(secs, rhs)
        carry == self.secs
        carry_nanos == uMul(carry, NANOS_PER_SEC)
        extra_nanos == uDiv(as_u64(carry_nanos), rhs)
        sum == uAdd(uDiv(self.nanos, rhs), as_u32(extra_nanos))
    IN  [secs |-> secs, prod |-> prod, carry |-> carry,
         carry_nanos |-> carry_nanos, extra_nanos |-> extra_nanos,
         sum |-> sum, nanos |-> as_u32(sum)]

\* the locals of checked_div for rhs # 0; prod, carry_nanos and sum are
\* the exact values of secs * rhs, carry * NANOS_PER_SEC and
\* self.nanos / rhs + (extra_nanos as u32)
checked_div_locals(self, rhs) ==
    LET secs == uDiv(self.secs, rhs)
        prod == uMul(secs, rhs)
        carry == wrapping_sub(self.secs, as_u64(prod), TwoTo64)
        carry_nanos == uMul(carry, NANOS_PER_SEC)
        extra_nanos == uDiv(as_u64(carry_nanos), rhs)
        sum == uAdd(uDiv(self.nanos, rhs), as_u32(extra_nanos))
    IN  [secs |-> secs, prod |-> prod, carry |-> carry,
         carry_nanos |-> carry_nanos, extra_nanos |-> extra_nanos,
         sum |-> sum, nanos |-> as_u32(sum)]

checked_div(self, rhs) ==
    IF rhs # Zero
    THEN LET l == checked_div_locals(self, rhs)
         IN  Some(Duration(l.secs, l.nanos))
    ELSE None

checked_div_ovf(self, rhs) ==
    LET l == checked_div_locals(self, rhs)
    IN  (IF fits_u64(l.prod) THEN {} ELSE {"secs * rhs"})
        \cup (IF uLe(as_u64(l.prod), self.secs) THEN {} ELSE {"self.secs - secs * rhs"})
        \cup (IF fits_u64(l.carry_nanos) THEN {} ELSE {"carry * NANOS_PER_SEC"})
        \cup (IF fits_u32(l.extra_nanos) THEN {} ELSE {"extra_nanos as u32"})
        \cup (IF fits_u32(l.sum) THEN {} ELSE {"nanos / rhs + extra_nanos"})

\* impl Add for Duration
add(self, rhs) ==
    LET r == checked_add(self, rhs)
    IN  IF r.kind = "Some" THEN Val(r.val) ELSE Panic

(***************************************************************************)
(* sum_durations!: the loop state is (total_secs, total_nanos); a panic    *)
(* of an `expect` ends the call.                                           *)
(***************************************************************************)
SumAcc(total_secs, total_nanos) ==
    [panicked |-> FALSE, total_secs |-> total_secs, total_nanos |-> total_nanos,
     deferred |-> FALSE]
SumPanicked ==
    [panicked |-> TRUE, total_secs |-> Zero, total_nanos |-> Zero, deferred |-> FALSE]

sum_start == SumAcc(Zero, Zero)

\* one iteration that, when total_nanos would leave 64 bits, drops its
\* whole seconds instead of carrying them into total_secs
sum_body_lost_carry(acc, entry) ==
    LET s == u64_checked_add(acc.total_secs, entry.secs)
        n == u64_checked_add(acc.total_nanos, entry.nanos)
    IN  IF s.kind = "None" THEN SumPanicked
        ELSE IF n.kind = "Some" THEN SumAcc(s.val, n.val)
        ELSE [SumAcc(s.val,
                as_u64(uAdd(uRem(acc.total_nanos, NANOS_PER_SEC), entry.nanos)))
              EXCEPT !.deferred = TRUE]

\* one iteration of `for entry in $iter`; deferred says that the
\* iteration took the arm that carries total_nanos into total_secs
sum_body(acc, entry) ==
    LET s == u64_checked_add(acc.total_secs, entry.secs)
        n == u64_checked_add(acc.total_nanos, entry.nanos)
    IN  IF s.kind = "None" THEN SumPanicked
        ELSE IF n.kind = "Some" THEN SumAcc(s.val, n.val)
        ELSE LET s2 == u64_checked_add(s.val, uDiv(acc.total_nanos, NANOS_PER_SEC))
             IN  IF s2.kind = "None" THEN SumPanicked
                 ELSE [SumAcc(s2.val,
                         as_u64(uAdd(uRem(acc.total_nanos, NANOS_PER_SEC), entry.nanos)))
                       EXCEPT !.deferred = TRUE]

\* the u64 steps of the carrying arm that leave the 64-bit range
sum_body_ovf(acc, entry) ==
    IF u64_checked_add(acc.total_nanos, entry.nanos).kind = "Some" THEN {}
    ELSE IF fits_u64(uAdd(uRem(acc.total_nanos, NANOS_PER_SEC), entry.nanos))
         THEN {} ELSE {"add"}

\* the code after the loop, without the carry of total_nanos
sum_end_no_carry(acc) ==
    Val(Duration(acc.total_secs, as_u32(uRem(acc.total_nanos, NANOS_PER_SEC))))

\* the code after the loop
sum_end(acc) ==
    LET s == u64_checked_add(acc.total_secs, uDiv(acc.total_nanos, NANOS_PER_SEC))
    IN  IF s.kind = "None" THEN Panic
        ELSE Val(Duration(s.val, as_u32(uRem(acc.total_nanos, NANOS_PER_SEC))))

RECURSIVE sum_loop(_, _, _)
sum_loop(acc, iter, i) ==
    IF acc.panicked \/ i > Len(iter) THEN acc
    ELSE sum_loop(sum_body(acc, iter[i]), iter, i + 1)

\* Sum::sum over the sequence iter
sum_durations(iter) ==
    LET acc == sum_loop(sum_start, iter, 1)
    IN  IF acc.panicked THEN Panic ELSE sum_end(acc)

(***************************************************************************)
(* impl fmt::Debug for Duration.  A decimal text is a sequence of digits   *)
(* 0..9, most significant first; the buffer holds the digits' values.      *)
(***************************************************************************)
\* f.precision(): NoPrecision stands for None, p for Some(p)
NoPrecision == -1

\* a number below Radix as an integer
Small(n) == IF n = Zero THEN 0 ELSE n[1]

\* the four decimal digits of a limb, and the digits of all limbs up to i
LimbDigits(l) == <<l \div 1000, (l \div 100) % 10, (l \div 10) % 10, l % 10>>

RECURSIVE LimbsDigits(_, _)
LimbsDigits(a, i) ==
    IF i = 0 THEN <<>> ELSE LimbDigits(a[i]) \o LimbsDigits(a, i - 1)

RECURSIVE StripZeros(_)
StripZeros(ds) ==
    IF Len(ds) > 1 /\ ds[1] = 0 THEN StripZeros(Tail(ds)) ELSE ds

\* write!(f, "{}", integer_part): the decimal digits of a u64
Display(n) == IF n = Zero THEN <<0>> ELSE StripZeros(LimbsDigits(n, Len(n)))

\* let mut buf = [b'0'; 9]
EmptyBuf == [i \in 1..9 |-> 0]

\* nothing written to the formatter yet
NoText ==
    [plus |-> FALSE, int |-> <<>>, point |-> FALSE, frac |-> <<>>, suffix |-> ""]

\* the state of Debug::fmt before it is called
FmtIdle ==
    [at |-> "idle", d |-> NoVal, precision |-> NoPrecision, sign_plus |-> FALSE,
     integer_part |-> Zero, fractional_part |-> Zero, divisor |-> Zero,
     buf |-> EmptyBuf, pos |-> 0, rev_pos |-> 0, carry |-> FALSE,
     suffix |-> "", iters |-> 0, faults |-> {}, text |-> NoText]

\* the branch Debug::fmt takes for d: the arguments of fmt_decimal, the suffix
fmt_branch(d) ==
    IF d.secs # Zero
    THEN [integer_part |-> d.secs, fractional_part |-> d.nanos,
          divisor |-> U(100000000), suffix |-> "s"]
    ELSE IF uLe(U(1000000), d.nanos)
    THEN [integer_part |-> uDiv(d.nanos, U(1000000)),
          fractional_part |-> uRem(d.nanos, U(1000000)),
          divisor |-> U(100000), suffix |-> "ms"]
    ELSE IF uLe(U(1000), d.nanos)
    THEN [integer_part |-> uDiv(d.nanos, U(1000)),
          fractional_part |-> uRem(d.nanos, U(1000)),
          divisor |-> U(100), suffix |-> "us"]
    ELSE [integer_part |-> d.nanos, fractional_part |-> Zero,
          divisor |-> One, suffix |-> "ns"]

\* Debug::fmt up to the entry of fmt_decimal's digit loop
fmt_call(d, precision, sign_plus) ==
    LET b == fmt_branch(d)
    IN  [FmtIdle EXCEPT
            !.at = "digits", !.d = d, !.precision = precision,
            !.sign_plus = sign_plus,
            !.integer_part = b.integer_part,
            !.fractional_part = b.fractional_part,
            !.divisor = b.divisor, !.suffix = b.suffix,
            !.text = [NoText EXCEPT !.plus = sign_plus]]

\* the condition of the digit loop
fmt_more_digits(st) ==
    /\ st.fractional_part # Zero
    /\ st.pos < (IF st.precision = NoPrecision THEN 9 ELSE st.precision)

\* one iteration of the digit loop; buf[pos] is entry pos + 1 of the buffer.
\* A division by zero and an index past the buffer panic.
fmt_digit(st) ==
    IF st.divisor = Zero
    THEN [st EXCEPT !.at = "panicked", !.faults = @ \cup {"divide by zero"}]
    ELSE IF st.pos >= 9
    THEN [st EXCEPT !.at = "panicked", !.faults = @ \cup {"buf index"}]
    ELSE LET digit == uDiv(st.fractional_part, st.divisor)
             byte == Small(uRem(digit, U(256)))
         IN  [st EXCEPT
                !.buf = [@ EXCEPT ![st.pos + 1] = byte],
                !.fractional_part = uRem(st.fractional_part, st.divisor),
                !.divisor = uDiv(st.divisor, U(10)),
                !.pos = st.pos + 1,
                !.iters = @ + 1,
                !.faults = @ \cup (IF uLe(U(10), digit) THEN {"digit"} ELSE {})]

\* whether the remainder rounds up: fractional_part >= divisor * 5, in u32
fmt_rounds_up(st) ==
    /\ st.fractional_part # Zero
    /\ uLe(as_u32(uMul(st.divisor, U(5))), st.fractional_part)

\* after the digit loop: enter the rounding loop or go to the output
fmt_digits_done(st) ==
    LET ovf == IF fits_u32(uMul(st.divisor, U(5))) THEN {} ELSE {"divisor * 5"}
    IN  IF fmt_rounds_up(st)
        THEN [st EXCEPT !.at = "round", !.rev_pos = st.pos, !.carry = TRUE,
                        !.faults = @ \cup ovf]
        ELSE [st EXCEPT !.at = "end", !.faults = @ \cup ovf]

\* one iteration of the rounding loop
fmt_round(st) ==
    LET i == st.rev_pos - 1
    IN  IF st.buf[i + 1] < 9
        THEN [st EXCEPT !.rev_pos = i, !.buf = [@ EXCEPT ![i + 1] = @ + 1],
                        !.carry = FALSE]
        ELSE [st EXCEPT !.rev_pos = i, !.buf = [@ EXCEPT ![i + 1] = 0]]

\* after the rounding loop: integer_part += 1 if the carry is still set.
\* The addition is unchecked: past u64::MAX it panics in a build with
\* overflow checks and wraps in a build without.
fmt_round_done(st, overflow_checks) ==
    IF ~st.carry
    THEN [st EXCEPT !.at = "end"]
    ELSE IF fits_u64(uAdd(st.integer_part, One))
    THEN [st EXCEPT !.at = "end", !.integer_part = uAdd(@, One)]
    ELSE IF overflow_checks
    THEN [st EXCEPT !.at = "panicked", !.faults = @ \cup {"integer_part + 1"}]
    ELSE [st EXCEPT !.at = "end", !.integer_part = as_u64(uAdd(@, One)),
                    !.faults = @ \cup {"integer_part + 1"}]

\* unwrap_or(9) in place of unwrap_or(pos): the whole buffer is printed
fmt_end_full(precision, pos) ==
    IF precision = NoPrecision THEN 9
    ELSE IF precision < 9 THEN precision ELSE 9

\* let end = f.precision().map(|p| min(p, 9)).unwrap_or(pos)
fmt_end(precision, pos) ==
    IF precision = NoPrecision THEN pos
    ELSE IF precision < 9 THEN precision ELSE 9

\* {:0<width$}: s, followed by zeros up to the width w
PadZeros(s, w) == [i \in 1..(IF w > Len(s) THEN w ELSE Len(s)) |->
                      IF i <= Len(s) THEN s[i] ELSE 0]

\* the output of fmt_decimal and the suffix Debug::fmt writes after it
fmt_write(st) ==
    LET end == fmt_end(st.precision, st.pos)
        w == IF st.precision = NoPrecision THEN st.pos ELSE st.precision
    IN  IF end = 0
        THEN [st EXCEPT !.at = "done",
                !.text = [@ EXCEPT !.int = Display(st.integer_part),
                                   !.suffix = st.suffix]]
        ELSE IF end > 9
        THEN [st EXCEPT !.at = "panicked", !.faults = @ \cup {"buf slice"}]
        ELSE [st EXCEPT !.at = "done",
                !.text = [@ EXCEPT !.int = Display(st.integer_part),
                                   !.point = TRUE,
                                   !.frac = PadZeros(SubSeq(st.buf, 1, end), w),
                                   !.suffix = st.suffix]]

(***************************************************************************)
(* f64.  A float is NaN, an infinity, or a finite value (-1)^neg * m * 2^e *)
(* with m < 2^53 and e >= -1074; +0.0 and -0.0 have m = 0.  An operation   *)
(* computes its exact result and rounds it to the nearest float, ties to   *)
(* the even mantissa, as IEEE 754 arithmetic does.                         *)
(***************************************************************************)
RECURSIVE Pow2(_)
Pow2(n) ==
    IF n < 13 THEN U(2 ^ n)
    ELSE LET h == Pow2(n \div 2)
         IN  IF n % 2 = 0 THEN uMul(h, h) ELSE MulLimb(uMul(h, h), 2)

\* the number of bits of m: the least n in lo..hi with m < 2^n
RECURSIVE BitLenIn(_, _, _)
BitLenIn(m, lo, hi) ==
    IF lo = hi THEN lo
    ELSE LET mid == (lo + hi) \div 2
         IN  IF uLt(m, Pow2(mid)) THEN BitLenIn(m, lo, mid)
             ELSE BitLenIn(m, mid + 1, hi)

\* a number of L > 0 limbs is at least 10000^(L-1) >= 2^(13(L-1)) and below
\* 10000^L < 2^(14L)
BitLen(m) ==
    IF m = Zero THEN 0 ELSE BitLenIn(m, 13 * (Len(m) - 1) + 1, 14 * Len(m))

Finite(neg, m, e) == [k |-> "fin", neg |-> neg, m |-> m, e |-> e]
Infinity(neg) == [k |-> "inf", neg |-> neg, m |-> Zero, e |-> 0]
NaN == [k |-> "nan", neg |-> FALSE, m |-> Zero, e |-> 0]

\* the float nearest to (-1)^neg * (m + s) * 2^e, where 0 < s < 1 if sticky
\* and s = 0 otherwise; a sticky m has at least 55 bits
RoundF64(neg, m, e, sticky) ==
    LET n == BitLen(m)
        q == IF n + e - 53 > -1074 THEN n + e - 53 ELSE -1074
        shift == q - e
        hi == uDiv(m, Pow2(shift))
        lo == uRem(m, Pow2(shift))
        half == Pow2(shift - 1)
        up == \/ uLt(half, lo)
              \/ lo = half /\ (sticky \/ Small(uRem(hi, U(2))) = 1)
        r == IF up THEN uAdd(hi, One) ELSE hi
    IN  IF shift <= 0
        THEN (IF n + e > 1024 THEN Infinity(neg) ELSE Finite(neg, m, e))
        ELSE IF BitLen(r) + q > 1024 THEN Infinity(neg)
        ELSE Finite(neg, r, q)

\* `v as f64` of an unsigned integer
as_f64(v) == RoundF64(FALSE, v, 0, FALSE)

\* a * b
f64_mul(a, b) ==
    LET neg == a.neg # b.neg
    IN  IF a.k = "nan" \/ b.k = "nan" THEN NaN
        ELSE IF a.k = "inf" \/ b.k = "inf"
        THEN (IF (a.k = "fin" /\ a.m = Zero) \/ (b.k = "fin" /\ b.m = Zero)
              THEN NaN ELSE Infinity(neg))
        ELSE RoundF64(neg, uMul(a.m, b.m), a.e + b.e, FALSE)

\* a + b of finite floats that are not negative
f64_add(a, b) ==
    LET e == IF a.e < b.e THEN a.e ELSE b.e
    IN  RoundF64(FALSE,
                 uAdd(uMul(a.m, Pow2(a.e - e)), uMul(b.m, Pow2(b.e - e))),
                 e, FALSE)

\* a / b of a finite float a that is not negative: the quotient of the
\* mantissas is taken with at least 55 bits and a sticky remainder
f64_div(a, b) ==
    LET neg == a.neg # b.neg
        k == IF 56 + BitLen(b.m) - BitLen(a.m) > 0
             THEN 56 + BitLen(b.m) - BitLen(a.m) ELSE 0
        num == uMul(a.m, Pow2(k))
    IN  IF b.k = "nan" THEN NaN
        ELSE IF b.k = "inf" THEN Finite(neg, Zero, 0)
        ELSE IF b.m = Zero
        THEN (IF a.m = Zero THEN NaN ELSE Infinity(neg))
        ELSE IF a.m = Zero THEN Finite(neg, Zero, 0)
        ELSE RoundF64(neg, uDiv(num, b.m), a.e - b.e - k, uRem(num, b.m) # Zero)

\* a > b of finite floats, b positive
f64_gt(a, b) ==
    LET e == IF a.e < b.e THEN a.e ELSE b.e
    IN  /\ ~a.neg
        /\ a.m # Zero
        /\ \/ BitLen(a.m) + a.e > BitLen(b.m) + b.e
           \/ /\ BitLen(a.m) + a.e = BitLen(b.m) + b.e
              /\ uLt(uMul(b.m, Pow2(b.e - e)), uMul(a.m, Pow2(a.e - e)))

\* a < 0.0 of a finite float: -0.0 is not below 0.0
f64_lt_zero(a) == a.neg /\ a.m # Zero

\* `a as u128` of a finite float between 0 and 2^128: the integer part
f64_as_u128(a) ==
    IF a.e >= 0 THEN uMul(a.m, Pow2(a.e))
    ELSE IF 0 - a.e >= BitLen(a.m) THEN Zero
    ELSE uDiv(a.m, Pow2(0 - a.e))

\* const MAX_NANOS_F64: f64 = ((u64::MAX as u128) * (NANOS_PER_SEC as u128)) as f64
MAX_NANOS_F64 == as_f64(uMul(U64_MAX, NANOS_PER_SEC))

\* const NPS: f64 = NANOS_PER_SEC as f64
NPS == as_f64(NANOS_PER_SEC)

\* NPS * (self.secs as f64) + (self.nanos as f64)
self_nanos_f64(d) == f64_add(f64_mul(NPS, as_f64(d.secs)), as_f64(d.nanos))

\* the three checks and the conversion that end mul and div by an f64
from_nanos_f64(nanos_f64) ==
    IF nanos_f64.k # "fin" THEN Panic
    ELSE IF f64_gt(nanos_f64, MAX_NANOS_F64) THEN Panic
    ELSE IF f64_lt_zero(nanos_f64) THEN Panic
    ELSE LET nanos_u128 == f64_as_u128(nanos_f64)
         IN  Val(Duration(as_u64(uDiv(nanos_u128, NANOS_PER_SEC)),
                          as_u32(uRem(nanos_u128, NANOS_PER_SEC))))

\* impl Mul<f64> for Duration, and impl Mul<Duration> for f64 (the same body)
mul_f64_nanos(d, f) == f64_mul(f, self_nanos_f64(d))

\* impl Div<f64> for Duration
div_f64_nanos(d, f) == f64_div(self_nanos_f64(d), f)

\* no operator with an f64 operand called yet
FltIdle ==
    [at |-> "idle", op |-> "none", self |-> NoVal, rhs |-> NaN, nanos_f64 |-> NaN, out |-> None]

(***************************************************************************)
(* Inputs                                                                  *)
(***************************************************************************)
\* how far around each point of interest the inputs are drawn
Spread == 1
\* calls in a chain of calls, and entries of a summed sequence
MaxOps == 2
MaxSumLen == 2
\* loop steps of a sum that is followed step by step
MaxEntries == 3

\* the numbers within Spread of p that lie in 0..max
Around(p, max) ==
    {uAdd(p, U(i)) : i \in {j \in 0..Spread : uLe(uAdd(p, U(j)), max)}}
    \cup {uSub(p, U(i)) : i \in {j \in 0..Spread : uLe(U(j), p)}}

NanosMax == uSub(NANOS_PER_SEC, One)
HalfSec == U(500000000)
TwoTo63 == uDiv(TwoTo64, U(2))
\* the largest whole-second count whose nanosecond total fits in 64 bits,
\* and the nanoseconds left over
SecsOfU64 == uDiv(U64_MAX, NANOS_PER_SEC)
NanosOfU64 == uRem(U64_MAX, NANOS_PER_SEC)

\* seconds fields of the operands of the arithmetic
DurSecs ==
    Around(Zero, U64_MAX) \cup Around(TwoTo32, U64_MAX)
    \cup Around(TwoTo63, U64_MAX) \cup Around(U64_MAX, U64_MAX)

\* u64 arguments of the constructors
U64s ==
    DurSecs \cup Around(NANOS_PER_SEC, U64_MAX) \cup Around(SecsOfU64, U64_MAX)

\* canonical nanosecond fields
SubsecNanos ==
    Around(Zero, NanosMax) \cup Around(HalfSec, NanosMax) \cup Around(NanosMax, NanosMax)

U32s ==
    Around(Zero, U32_MAX) \cup Around(U(2), U32_MAX)
    \cup Around(NANOS_PER_SEC, U32_MAX) \cup Around(U32_MAX, U32_MAX)

\* nanosecond arguments of new: any u32
RawNanos ==
    SubsecNanos \cup Around(NANOS_PER_SEC, U32_MAX)
    \cup Around(U(2000000000), U32_MAX) \cup Around(U32_MAX, U32_MAX)

Durations == {Duration(s, n) : s \in DurSecs, n \in SubsecNanos}

\* receivers of the accessors: also the durations around u64::MAX nanoseconds
Accessible ==
    Durations
    \cup {Duration(s, n) : s \in Around(SecsOfU64, U64_MAX),
                           n \in SubsecNanos \cup Around(NanosOfU64, NanosMax)}

\* inputs of the chains of calls
CornerSecs == {Zero, One, U64_MAX}
CornerNanos == {Zero, One, NanosMax}
CornerUnits == CornerSecs \cup {NanosMax}
CornerRaw == CornerNanos \cup {NANOS_PER_SEC, U32_MAX}
CornerDurations == {Duration(s, n) : s \in CornerSecs, n \in CornerNanos}

(***************************************************************************)
(* State                                                                   *)
(***************************************************************************)
VARIABLES
    cur,        \* the Duration most recently obtained
    op,         \* the last call
    self,       \* its Duration receiver
    rhs,        \* its Duration argument
    x,          \* its first integer argument
    y,          \* its second integer argument
    out,        \* what it returned: Some/None, Val or Panic, of a Duration
    scalar,     \* the integer an accessor returned
    nops,       \* calls made
    pc,         \* position of a sum: "idle", "loop", "done"
    acc,        \* total_secs and total_nanos of the running sum
    consumed,   \* exact nanosecond total of the entries the loop has taken
    fold,       \* the left fold of `+` over the same entries
    tracked,    \* whether fold has followed every entry
    wrapped,    \* unchecked steps of the loop that left their range
    nent,       \* loop steps taken
    fmt,        \* the state of a call of Debug::fmt and of its fmt_decimal
    flt         \* the last call of an operator with an f64 operand

callvars == <<cur, op, self, rhs, x, y, out, scalar, nops>>
sumvars == <<pc, acc, consumed, fold, tracked, wrapped, nent>>
vars == <<cur, op, self, rhs, x, y, out, scalar, nops,
          pc, acc, consumed, fold, tracked, wrapped, nent, fmt, flt>>

Init ==
    /\ cur = DefaultDuration
    /\ op = "none"
    /\ self = NoVal
    /\ rhs = NoVal
    /\ x = Zero
    /\ y = Zero
    /\ out = None
    /\ scalar = Zero
    /\ nops = 0
    /\ pc = "idle"
    /\ acc = sum_start
    /\ consumed = Zero
    /\ fold = Val(DefaultDuration)
    /\ tracked = TRUE
    /\ wrapped = {}
    /\ nent = 0
    /\ fmt = FmtIdle
    /\ flt = FltIdle

\* a call o(a, b, s, n) returned r
Returned(o, a, b, s, n, r) ==
    /\ op' = o
    /\ self' = a
    /\ rhs' = b
    /\ x' = s
    /\ y' = n
    /\ out' = r
    /\ scalar' = Zero
    /\ cur' = IF r.kind \in {"Some", "Val"} THEN r.val ELSE cur
    /\ nops' = nops + 1
    /\ UNCHANGED <<sumvars, fmt, flt>>

\* an accessor o(a) returned the integer v
Accessed(o, a, v) ==
    /\ op' = o
    /\ self' = a
    /\ rhs' = NoVal
    /\ x' = Zero
    /\ y' = Zero
    /\ out' = None
    /\ scalar' = v
    /\ nops' = nops + 1
    /\ UNCHANGED <<cur, sumvars, fmt, flt>>

New(secs, nanos) == Returned("new", NoVal, NoVal, secs, nanos, new(secs, nanos))
FromSecs(secs) == Returned("from_secs", NoVal, NoVal, secs, Zero, Val(from_secs(secs)))
FromMillis(millis) ==
    Returned("from_millis", NoVal, NoVal, millis, Zero, Val(from_millis(millis)))
FromMicros(micros) ==
    Returned("from_micros", NoVal, NoVal, micros, Zero, Val(from_micros(micros)))
FromNanos(nanos) ==
    Returned("from_nanos", NoVal, NoVal, nanos, Zero, Val(from_nanos(nanos)))
AsMillis(a) == Accessed("as_millis", a, as_millis(a))
AsMicros(a) == Accessed("as_micros", a, as_micros(a))
AsNanos(a) == Accessed("as_nanos", a, as_nanos(a))
CheckedAdd(a, b) == Returned("checked_add", a, b, Zero, Zero, checked_add(a, b))
CheckedSub(a, b) == Returned("checked_sub", a, b, Zero, Zero, checked_sub(a, b))
CheckedMul(a, k) == Returned("checked_mul", a, NoVal, k, Zero, checked_mul(a, k))
CheckedDiv(a, k) == Returned("checked_div", a, NoVal, k, Zero, checked_div(a, k))
Sum(iter) == Returned("sum", NoVal, NoVal, Zero, Zero, sum_durations(iter))

(***************************************************************************)
(* Spec: one call, on any operands                                         *)
(***************************************************************************)
CallNew == op = "none" /\ \E s \in U64s, n \in RawNanos : New(s, n)
CallFromSecs == op = "none" /\ \E s \in U64s : FromSecs(s)
CallFromMillis == op = "none" /\ \E s \in U64s : FromMillis(s)
CallFromMicros == op = "none" /\ \E s \in U64s : FromMicros(s)
CallFromNanos == op = "none" /\ \E s \in U64s : FromNanos(s)
CallAsMillis == op = "none" /\ \E a \in Accessible : AsMillis(a)
CallAsMicros == op = "none" /\ \E a \in Accessible : AsMicros(a)
CallAsNanos == op = "none" /\ \E a \in Accessible : AsNanos(a)
CallCheckedAdd == op = "none" /\ \E a \in Durations, b \in Durations : CheckedAdd(a, b)
CallCheckedSub == op = "none" /\ \E a \in Durations, b \in Durations : CheckedSub(a, b)
CallCheckedMul == op = "none" /\ \E a \in Durations, k \in U32s : CheckedMul(a, k)
CallCheckedDiv == op = "none" /\ \E a \in Durations, k \in U32s : CheckedDiv(a, k)

Next ==
    \/ CallNew
    \/ CallFromSecs
    \/ CallFromMillis
    \/ CallFromMicros
    \/ CallFromNanos
    \/ CallAsMillis
    \/ CallAsMicros
    \/ CallAsNanos
    \/ CallCheckedAdd
    \/ CallCheckedSub
    \/ CallCheckedMul
    \/ CallCheckedDiv

Spec == Init /\ [][Next]_vars

(***************************************************************************)
(* SpecChain: up to MaxOps calls, each on the value obtained so far        *)
(***************************************************************************)
Pool == CornerDurations \cup {cur}
Iters == UNION {[1..n -> {cur, Duration(Zero, NanosMax), Duration(U64_MAX, Zero)}] :
                n \in 0..MaxSumLen}

ChainNew == nops < MaxOps /\ \E s \in CornerSecs, n \in CornerRaw : New(s, n)
ChainFromSecs == nops < MaxOps /\ \E s \in CornerSecs : FromSecs(s)
ChainFromMillis == nops < MaxOps /\ \E s \in CornerUnits : FromMillis(s)
ChainFromMicros == nops < MaxOps /\ \E s \in CornerUnits : FromMicros(s)
ChainFromNanos == nops < MaxOps /\ \E s \in CornerUnits : FromNanos(s)
ChainCheckedAdd == nops < MaxOps /\ \E b \in Pool : CheckedAdd(cur, b)
ChainCheckedSub == nops < MaxOps /\ \E b \in Pool : CheckedSub(cur, b)
ChainCheckedMul == nops < MaxOps /\ \E k \in U32s : CheckedMul(cur, k)
ChainCheckedDiv == nops < MaxOps /\ \E k \in U32s : CheckedDiv(cur, k)
ChainSum == nops < MaxOps /\ \E iter \in Iters : Sum(iter)

NextChain ==
    \/ ChainNew
    \/ ChainFromSecs
    \/ ChainFromMillis
    \/ ChainFromMicros
    \/ ChainFromNanos
    \/ ChainCheckedAdd
    \/ ChainCheckedSub
    \/ ChainCheckedMul
    \/ ChainCheckedDiv
    \/ ChainSum

SpecChain == Init /\ [][NextChain]_vars

(***************************************************************************)
(* SpecSum: one call of Sum::sum, followed through its loop.  The iterator *)
(* yields any entry next, or ends.                                         *)
(***************************************************************************)
SumSecs == {Zero, One, uSub(U64_MAX, SecsOfU64), uAdd(uSub(U64_MAX, SecsOfU64), One), U64_MAX}
SumNanos == {Zero, HalfSec, NanosMax}
SumEntries == {Duration(s, n) : s \in SumSecs, n \in SumNanos}

\* the exact nanosecond total of a duration, in unbounded arithmetic
TotalNanos(d) == uAdd(uMul(d.secs, NANOS_PER_SEC), d.nanos)

\* let mut total_secs = 0; let mut total_nanos = 0;
SumStart ==
    /\ pc = "idle"
    /\ op = "none"
    /\ pc' = "loop"
    /\ acc' = sum_start
    /\ UNCHANGED <<callvars, consumed, fold, tracked, wrapped, nent, fmt, flt>>

\* one iteration of the loop on the entry the iterator yields
SumStep(entry) ==
    /\ pc = "loop"
    /\ nent < MaxEntries
    /\ LET a2 == sum_body(acc, entry)
       IN  /\ acc' = a2
           /\ pc' = IF a2.panicked THEN "done" ELSE "loop"
           /\ out' = IF a2.panicked THEN Panic ELSE out
           /\ op' = IF a2.panicked THEN "sum" ELSE op
    /\ consumed' = uAdd(consumed, TotalNanos(entry))
    /\ wrapped' = wrapped \cup sum_body_ovf(acc, entry)
    /\ fold' = IF fold.kind = "Val" THEN add(fold.val, entry) ELSE fold
    /\ nent' = nent + 1
    /\ UNCHANGED <<cur, self, rhs, x, y, scalar, nops, tracked, fmt, flt>>

\* How many times in a row the loop can take `entry` with neither checked
\* addition of the first arm failing: each of these iterations only adds
\* entry.secs to total_secs and entry.nanos to total_nanos.
MaxRun(a, entry) ==
    LET bs == IF entry.secs = Zero THEN U64_MAX
              ELSE uDiv(uSub(U64_MAX, a.total_secs), entry.secs)
        bn == IF entry.nanos = Zero THEN U64_MAX
              ELSE uDiv(uSub(U64_MAX, a.total_nanos), entry.nanos)
    IN  IF uLe(bs, bn) THEN bs ELSE bn

\* k iterations of the loop in one step, for an iterator that yields
\* `entry` k times in a row, k <= MaxRun: what k SumSteps do
SumRun(entry, k) ==
    /\ pc = "loop"
    /\ nent < MaxEntries
    /\ uLe(U(2), k)
    /\ uLe(k, MaxRun(acc, entry))
    /\ acc' = SumAcc(uAdd(acc.total_secs, uMul(k, entry.secs)),
                     uAdd(acc.total_nanos, uMul(k, entry.nanos)))
    /\ consumed' = uAdd(consumed, uMul(k, TotalNanos(entry)))
    /\ tracked' = FALSE
    /\ nent' = nent + 1
    /\ UNCHANGED <<callvars, pc, fold, wrapped, fmt, flt>>

\* the iterator ended: the code after the loop
SumEnd ==
    /\ pc = "loop"
    /\ pc' = "done"
    /\ op' = "sum"
    /\ out' = sum_end(acc)
    /\ cur' = IF out'.kind = "Val" THEN out'.val ELSE cur
    /\ UNCHANGED <<self, rhs, x, y, scalar, nops,
                   acc, consumed, fold, tracked, wrapped, nent, fmt, flt>>

SumNext == \E entry \in SumEntries : SumStep(entry)
SumRunNext == \E entry \in SumEntries : SumRun(entry, MaxRun(acc, entry))

NextSum ==
    \/ SumStart
    \/ SumNext
    \/ SumRunNext
    \/ SumEnd

SpecSum == Init /\ [][NextSum]_vars

(***************************************************************************)
(* SpecFmt: one call of Debug::fmt, followed through fmt_decimal's digit   *)
(* loop, its rounding loop and its output.                                 *)
(***************************************************************************)
\* the largest precision the formatter is called with
MaxPrecision == 10

Precisions == {NoPrecision} \cup 0..MaxPrecision

FmtSecs == {Zero, One, U(9), U(1999)} \cup Around(U64_MAX, U64_MAX)

\* nanosecond fields in each unit's range, with and without trailing zeros,
\* below, at and above the rounding halves
FmtNanos ==
    SubsecNanos
    \cup {U(n) : n \in {5, 999, 1000, 1234, 9995, 999499, 999500, 999999,
                        1000000, 1500000, 20050000, 999500000,
                        100000000, 123456789, 730023852, 999999500}}

FmtDurations == {Duration(s, n) : s \in FmtSecs, n \in FmtNanos}

other_vars == <<callvars, sumvars, flt>>

\* `{:?}`, `{:.p?}`, `{:+?}` or `{:+.p?}` of d
FmtCall ==
    /\ fmt.at = "idle"
    /\ op = "none"
    /\ pc = "idle"
    /\ \E d \in FmtDurations, p \in Precisions, plus \in BOOLEAN :
          fmt' = fmt_call(d, p, plus)
    /\ UNCHANGED other_vars

FmtDigit ==
    /\ fmt.at = "digits"
    /\ fmt_more_digits(fmt)
    /\ fmt' = fmt_digit(fmt)
    /\ UNCHANGED other_vars

FmtDigitsDone ==
    /\ fmt.at = "digits"
    /\ ~fmt_more_digits(fmt)
    /\ fmt' = fmt_digits_done(fmt)
    /\ UNCHANGED other_vars

FmtRound ==
    /\ fmt.at = "round"
    /\ fmt.carry /\ fmt.rev_pos > 0
    /\ fmt' = fmt_round(fmt)
    /\ UNCHANGED other_vars

FmtRoundDone ==
    /\ fmt.at = "round"
    /\ ~(fmt.carry /\ fmt.rev_pos > 0)
    /\ \E overflow_checks \in BOOLEAN :
          fmt' = fmt_round_done(fmt, overflow_checks)
    /\ UNCHANGED other_vars

FmtWrite ==
    /\ fmt.at = "end"
    /\ fmt' = fmt_write(fmt)
    /\ UNCHANGED other_vars

NextFmt ==
    \/ FmtCall
    \/ FmtDigit
    \/ FmtDigitsDone
    \/ FmtRound
    \/ FmtRoundDone
    \/ FmtWrite

SpecFmt == Init /\ [][NextFmt]_vars

(***************************************************************************)
(* SpecFlt: one call of an operator with an f64 operand.                   *)
(***************************************************************************)
\* 0.1f64: 0x1999999999999A * 2^-56
TenthMantissa == uAdd(uMul(U(72057594), U(100000000)), U(3792794))

\* the float operands: zeros, exact and inexact fractions, small integers,
\* a negative number, the least and a large power of two, infinities, NaN
F64s ==
    {Finite(neg, m, 0) : neg \in BOOLEAN, m \in {Zero, One}}
    \cup {Finite(FALSE, m, 0) : m \in Around(U(2), U64_MAX)}
    \cup {Finite(FALSE, One, -1), Finite(FALSE, U(3), -1),
          Finite(FALSE, TenthMantissa, -56),
          Finite(FALSE, uAdd(Pow2(52), One), -52),
          Finite(FALSE, One, -1074), Finite(FALSE, One, 1023),
          Infinity(FALSE), Infinity(TRUE), NaN}

\* the Duration operands
FltDurations ==
    {Duration(s, n) : s \in {Zero, One, uAdd(Pow2(53), One), TwoTo63, U64_MAX},
                      n \in {Zero, One, HalfSec, NanosMax}}

\* the operator o is entered with the operands d and f
FloatCall(o) ==
    /\ flt.at = "idle"
    /\ op = "none"
    /\ pc = "idle"
    /\ fmt.at = "idle"
    /\ \E d \in FltDurations, f \in F64s :
          flt' = [FltIdle EXCEPT !.at = "entry", !.op = o, !.self = d, !.rhs = f]
    /\ UNCHANGED <<callvars, sumvars, fmt>>

\* Duration * f64
MulF64 == FloatCall("mul_f64")

\* f64 * Duration
F64MulDuration == FloatCall("f64_mul")

\* Duration / f64
DivF64 == FloatCall("div_f64")

\* let nanos_f64 = ...
FloatNanos ==
    /\ flt.at = "entry"
    /\ flt' = [flt EXCEPT
                 !.at = "checks",
                 !.nanos_f64 = IF flt.op = "div_f64"
                               THEN div_f64_nanos(flt.self, flt.rhs)
                               ELSE mul_f64_nanos(flt.self, flt.rhs)]
    /\ UNCHANGED <<callvars, sumvars, fmt>>

\* the checks of nanos_f64 and the returned Duration
FloatChecks ==
    /\ flt.at = "checks"
    /\ flt' = [flt EXCEPT !.at = "done", !.out = from_nanos_f64(flt.nanos_f64)]
    /\ UNCHANGED <<callvars, sumvars, fmt>>

NextFlt ==
    \/ MulF64
    \/ F64MulDuration
    \/ DivF64
    \/ FloatNanos
    \/ FloatChecks

SpecFlt == Init /\ [][NextFlt]_vars

(***************************************************************************)
(* Properties                                                              *)
(***************************************************************************)
Canonical(d) == uLt(d.nanos, NANOS_PER_SEC)

\* whether a nanosecond total is the total of some Duration
\* (its whole seconds are at most u64::MAX)
Representable(total) == uLt(total, uMul(TwoTo64, NANOS_PER_SEC))

Returns == out.kind \in {"Some", "Val"}

\* C1: every Duration obtained by a chain of constructors, checked
\* operations and sums has a nanosecond field below NANOS_PER_SEC (what the
\* debug assertions of the checked operations assert of the value they
\* return).
C1_CanonicalForm ==
    /\ Canonical(cur)
    /\ Returns => Canonical(out.val)

\* a chain that ends in an addition that carried, on a value that itself
\* came out of an earlier call
C1_Witness ==
    /\ nops >= 2
    /\ op = "checked_add"
    /\ out.kind = "Some"
    /\ uLe(NANOS_PER_SEC, uAdd(self.nanos, rhs.nanos))
    /\ self \notin CornerDurations

\* C2: checked_add returns Some(d) with as_nanos(d) = as_nanos(a) +
\* as_nanos(b) exactly when that total is representable, and None otherwise;
\* None comes only from the seconds addition or from the increment after
\* the carry.
C2_CheckedAddExact ==
    op = "checked_add" =>
        LET total == uAdd(TotalNanos(self), TotalNanos(rhs))
            secs_overflow == ~fits_u64(uAdd(self.secs, rhs.secs))
            carry_overflow ==
                /\ uLe(NANOS_PER_SEC, uAdd(self.nanos, rhs.nanos))
                /\ uAdd(self.secs, rhs.secs) = U64_MAX
        IN  /\ out.kind \in {"Some", "None"}
            /\ out.kind = "Some" <=> Representable(total)
            /\ out.kind = "Some" => as_nanos(out.val) = total /\ Canonical(out.val)
            /\ out.kind = "None" <=> (secs_overflow \/ carry_overflow)
            /\ checked_add_ovf(self, rhs) = {}

\* an addition that carries into the largest seconds count and succeeds
C2_Witness ==
    /\ op = "checked_add"
    /\ out.kind = "Some"
    /\ uLe(NANOS_PER_SEC, uAdd(self.nanos, rhs.nanos))
    /\ out.val.secs = U64_MAX

\* C3 as stated: new(0, 1) + new(u64::MAX, 0) overflows, checked_add
\* returns None.
C3_Original ==
    (/\ op = "checked_add"
     /\ Val(self) = new(Zero, One)
     /\ Val(rhs) = new(U64_MAX, Zero))
    => out.kind = "None"

\* C3 amended: new(1, 0) + new(u64::MAX, 0) overflows, checked_add returns
\* None; new(0, 1) + new(u64::MAX, 0) does not, it is Some(new(u64::MAX, 1)).
C3_OneSecondOverflows ==
    /\ (/\ op = "checked_add"
        /\ Val(self) = new(One, Zero)
        /\ Val(rhs) = new(U64_MAX, Zero))
       => out.kind = "None"
    /\ (/\ op = "checked_add"
        /\ Val(self) = new(Zero, One)
        /\ Val(rhs) = new(U64_MAX, Zero))
       => out = Some(new(U64_MAX, One).val)

C3_Witness ==
    /\ op = "checked_add"
    /\ Val(self) = new(One, Zero)
    /\ Val(rhs) = new(U64_MAX, Zero)
    /\ out.kind = "None"

\* C4: checked_sub(a, b) is None whenever b > a and Some(d) with
\* as_nanos(d) = as_nanos(a) - as_nanos(b) whenever b <= a, the order being
\* that of the nanosecond totals, which is the derived order on
\* (secs, nanos).
C4_CheckedSubExact ==
    op = "checked_sub" =>
        /\ DurationLe(rhs, self) <=> uLe(TotalNanos(rhs), TotalNanos(self))
        /\ uLt(TotalNanos(self), TotalNanos(rhs)) => out.kind = "None"
        /\ uLe(TotalNanos(rhs), TotalNanos(self)) =>
               /\ out.kind = "Some"
               /\ Canonical(out.val)
               /\ as_nanos(out.val) = uSub(TotalNanos(self), TotalNanos(rhs))
        /\ checked_sub_ovf(self, rhs) = {}

\* a subtraction that borrows a second and succeeds
C4_Witness ==
    /\ op = "checked_sub"
    /\ uLt(self.nanos, rhs.nanos)
    /\ out.kind = "Some"

\* C5: in checked_mul the product nanos * k fits in 64 bits, and the call
\* returns Some(r) with as_nanos(r) = as_nanos(d) * k exactly when that
\* product is representable, None otherwise; checked_mul(d, 0) is
\* Some(zero).
C5_CheckedMulExact ==
    op = "checked_mul" =>
        LET total == uMul(TotalNanos(self), x)
        IN  /\ checked_mul_ovf(self, x) = {}
            /\ out.kind \in {"Some", "None"}
            /\ out.kind = "Some" <=> Representable(total)
            /\ out.kind = "Some" => as_nanos(out.val) = total /\ Canonical(out.val)
            /\ x = Zero => out = Some(Duration(Zero, Zero))

\* a multiplication whose nanoseconds carry whole seconds and which succeeds
C5_Witness ==
    /\ op = "checked_mul"
    /\ out.kind = "Some"
    /\ checked_mul_locals(self, x).extra_secs # Zero
    /\ self.secs # Zero

\* C6: checked_div(d, 0) is None; for k > 0 it returns Some, no
\* intermediate value (secs * k, carry * NANOS_PER_SEC, extra_nanos as u32,
\* nanos / k + extra_nanos) leaves its integer width, and carry < k.
C6_CheckedDivSafe ==
    op = "checked_div" =>
        /\ x = Zero => out.kind = "None"
        /\ x # Zero =>
               /\ out.kind = "Some"
               /\ checked_div_ovf(self, x) = {}
               /\ uLt(checked_div_locals(self, x).carry, x)

\* a division by the largest divisor that leaves the largest remainder
C6_Witness ==
    /\ op = "checked_div"
    /\ out.kind = "Some"
    /\ x = U32_MAX
    /\ checked_div_locals(self, x).carry = uSub(U32_MAX, One)

\* C7: if secs + nanos / NANOS_PER_SEC fits in 64 bits, new returns d with
\* subsec_nanos(d) < NANOS_PER_SEC and as_secs(d) * NANOS_PER_SEC +
\* subsec_nanos(d) = secs * NANOS_PER_SEC + nanos; otherwise, and only
\* then, it panics.
C7_NewNormalizes ==
    op = "new" =>
        LET fits == fits_u64(uAdd(x, uDiv(y, NANOS_PER_SEC)))
        IN  /\ out.kind \in {"Val", "Panic"}
            /\ fits =>
                   /\ out.kind = "Val"
                   /\ uLt(subsec_nanos(out.val), NANOS_PER_SEC)
                   /\ uAdd(uMul(as_secs(out.val), NANOS_PER_SEC), subsec_nanos(out.val))
                          = uAdd(uMul(x, NANOS_PER_SEC), y)
            /\ out.kind = "Panic" <=> ~fits

\* new carries whole seconds out of its nanosecond argument and returns
C7_Witness ==
    /\ op = "new"
    /\ out.kind = "Val"
    /\ uLe(NANOS_PER_SEC, y)
    /\ x # Zero

\* C8: from_nanos(as_nanos(d)) = d when as_nanos(d) fits in 64 bits;
\* from_millis, from_micros and from_nanos compute their nanosecond field
\* without leaving 32 bits, and as_millis(from_millis(x)) = x,
\* as_micros(from_micros(x)) = x, as_nanos(from_nanos(x)) = x.
C8_UnitRoundTrip ==
    /\ (op = "as_nanos" /\ fits_u64(scalar)) => from_nanos(scalar) = self
    /\ op = "from_millis" =>
           from_millis_ovf(x) = {} /\ as_millis(out.val) = x /\ Canonical(out.val)
    /\ op = "from_micros" =>
           from_micros_ovf(x) = {} /\ as_micros(out.val) = x /\ Canonical(out.val)
    /\ op = "from_nanos" =>
           from_nanos_ovf(x) = {} /\ as_nanos(out.val) = x /\ Canonical(out.val)

\* from_micros of a count with the largest sub-second remainder
C8_Witness ==
    /\ op = "from_micros"
    /\ uRem(x, MICROS_PER_SEC) = uSub(MICROS_PER_SEC, One)
    /\ out.val.secs # Zero

\* C9: whenever a.checked_add(b) is Some(c), c.checked_sub(b) is Some(a).
C9_AddThenSub ==
    (op = "checked_add" /\ out.kind = "Some") =>
        checked_sub(out.val, rhs) = Some(self)

\* an addition that carried and whose second operand has a larger
\* nanosecond field than the sum, so that the subtraction borrows
C9_Witness ==
    /\ op = "checked_add"
    /\ out.kind = "Some"
    /\ uLe(NANOS_PER_SEC, uAdd(self.nanos, rhs.nanos))
    /\ uLt(out.val.nanos, rhs.nanos)
    /\ self.secs # Zero

\* C10: in the loop of the sum, total_secs * NANOS_PER_SEC + total_nanos is
\* the total of the entries taken so far and no unchecked step wraps;
\* the sum returns the canonical duration of the entries' total when that
\* total is representable and panics exactly when it is not, which is what
\* the left fold of `+` from the zero duration does; the sum of no entries
\* is the zero duration.
C10_SumIsFold ==
    /\ wrapped = {}
    /\ pc = "loop" =>
           uAdd(uMul(acc.total_secs, NANOS_PER_SEC), acc.total_nanos) = consumed
    /\ pc = "done" =>
           /\ out.kind \in {"Val", "Panic"}
           /\ out.kind = "Val" <=> Representable(consumed)
           /\ out.kind = "Val" => Canonical(out.val) /\ as_nanos(out.val) = consumed
           /\ tracked => out = fold
           /\ nent = 0 => out = Val(Duration(Zero, Zero))

\* a sum whose last iteration carried total_nanos into total_secs because
\* total_nanos would have left 64 bits, and which returned
C10_Witness ==
    /\ pc = "done"
    /\ acc.deferred
    /\ out.kind = "Val"
    /\ out.val.secs # Zero

\* 10^n, and the number a decimal text writes
Pow10(n) == [i \in 1..(n \div 4) |-> 0] \o <<10 ^ (n % 4)>>

\* the digit k places from the right end of ds (0 beyond its left end); each
\* limb of the number is made of four digits
DigitAt(ds, k) == IF k < Len(ds) THEN ds[Len(ds) - k] ELSE 0

Parse(ds) ==
    Norm([i \in 1..((Len(ds) + 3) \div 4) |->
            DigitAt(ds, 4 * i - 4) + 10 * DigitAt(ds, 4 * i - 3)
            + 100 * DigitAt(ds, 4 * i - 2) + 1000 * DigitAt(ds, 4 * i - 1)])

\* a text of decimal digits, and one without a superfluous leading zero
IsDigits(ds) == \A i \in 1..Len(ds) : ds[i] \in 0..9
IsNumeral(ds) == IsDigits(ds) /\ Len(ds) >= 1 /\ (Len(ds) > 1 => ds[1] # 0)

\* the unit a duration is rendered in ("us" stands for the suffix µs), and
\* the nanoseconds in one unit
UnitOf(d) ==
    IF d.secs # Zero THEN "s"
    ELSE IF uLe(U(1000000), d.nanos) THEN "ms"
    ELSE IF uLe(U(1000), d.nanos) THEN "us"
    ELSE "ns"

UnitNanos(unit) ==
    CASE unit = "s" -> NANOS_PER_SEC
      [] unit = "ms" -> NANOS_PER_MILLI
      [] unit = "us" -> NANOS_PER_MICRO
      [] unit = "ns" -> One

\* C11: a Duration rendered with a precision p is its exact value in the
\* unit chosen before rounding (s, ms, µs or ns by the size of the
\* duration), rounded half-up to p decimal places: exactly p fractional
\* digits are printed, a decimal point exactly when p > 0, and the printed
\* number scaled by 10^p is floor(value * 10^p + 1/2), whatever carry the
\* rounding propagates, into the integer part included.
C11_DebugRoundsHalfUp ==
    (fmt.at \in {"done", "panicked"} /\ fmt.precision # NoPrecision) =>
        LET t == fmt.text
            p == fmt.precision
            unit == UnitOf(fmt.d)
            total == TotalNanos(fmt.d)
            twice == MulLimb(UnitNanos(unit), 2)
        IN  /\ fmt.at = "done"
            /\ t.suffix = unit
            /\ IsNumeral(t.int)
            /\ IsDigits(t.frac)
            /\ Len(t.frac) = p
            /\ t.point = (p > 0)
            /\ uAdd(uMul(Parse(t.int), Pow10(p)), Parse(t.frac))
                 = uDiv(uAdd(uMul(MulLimb(total, 2), Pow10(p)), UnitNanos(unit)),
                        twice)

\* C12: a Duration rendered without a precision is exact and minimal: the
\* suffix is s, ms, µs or ns by the size of the duration; the integer part is
\* the count of whole units; the fractional digits are the exact expansion
\* of the remainder and do not end in 0; there is a decimal point exactly
\* when the remainder is not zero; so the printed number times the unit is
\* the duration.
C12_DebugExactMinimal ==
    (fmt.at = "done" /\ fmt.precision = NoPrecision) =>
        LET t == fmt.text
            unit == UnitOf(fmt.d)
            total == TotalNanos(fmt.d)
            L == Len(t.frac)
        IN  /\ t.suffix = unit
            /\ IsNumeral(t.int)
            /\ IsDigits(t.frac)
            /\ Parse(t.int) = uDiv(total, UnitNanos(unit))
            /\ uMul(uAdd(uMul(Parse(t.int), Pow10(L)), Parse(t.frac)),
                    UnitNanos(unit)) = uMul(total, Pow10(L))
            /\ L > 0 => t.frac[L] # 0
            /\ t.point = (uRem(total, UnitNanos(unit)) # Zero)
            /\ t.point = (L > 0)

\* new(0, 1234) has been rendered as 1.234µs
C12_Witness ==
    /\ fmt.at = "done"
    /\ fmt.precision = NoPrecision
    /\ fmt.d = Duration(Zero, U(1234))
    /\ fmt.text.int = <<1>>
    /\ fmt.text.point
    /\ fmt.text.frac = <<2, 3, 4>>
    /\ fmt.text.suffix = "us"

\* C13: Duration * f64, f64 * Duration and Duration / f64 never return a
\* wrapped or truncated value: when the computed nanosecond count is not
\* finite, is negative or is above the largest representable duration the
\* call panics; when it returns, the Duration is canonical and its seconds
\* are the count divided by 1_000_000_000, which fits in 64 bits.
C13_FloatOpsNeverWrap ==
    flt.at = "done" =>
        LET nf == flt.nanos_f64
            count == f64_as_u128(nf)
        IN  /\ ( \/ nf.k # "fin"
                 \/ f64_lt_zero(nf)
                 \/ nf.m # Zero /\ BitLen(nf.m) + nf.e > 128
                 \/ ~Representable(count) ) => flt.out.kind = "Panic"
            /\ flt.out.kind = "Val" =>
                  /\ Canonical(flt.out.val)
                  /\ fits_u64(uDiv(count, NANOS_PER_SEC))
                  /\ flt.out.val.secs = uDiv(count, NANOS_PER_SEC)

\* C14: for k > 0, checked_div(d, k) returns Some(q) with as_nanos(q) =
\* floor(as_nanos(d) / k), the truncating quotient of the nanosecond total.
C14_DivIsTruncatingQuotient ==
    (op = "checked_div" /\ x # Zero) =>
        /\ out.kind = "Some"
        /\ as_nanos(out.val) = uDiv(TotalNanos(self), x)

\* C15: fmt_decimal is memory- and arithmetic-safe for every duration and
\* every precision: at entry fractional_part < 10 * divisor; every digit in
\* the buffer is in 0..9; the digit loop writes at an index below 9, divides
\* by a non-zero divisor and runs at most 9 times; `end` is at most 9; and
\* integer_part + 1 on a full rounding carry stays within 64 bits.
C15_FormatterSafe ==
    fmt.at # "idle" =>
        /\ LET b == fmt_branch(fmt.d)
           IN  uLt(b.fractional_part, MulLimb(b.divisor, 10))
        /\ IsDigits(fmt.buf)
        /\ (fmt.at = "digits" /\ fmt_more_digits(fmt)) =>
              (fmt.pos < 9 /\ fmt.divisor # Zero)
        /\ fmt.iters <= 9
        /\ fmt_end(fmt.precision, fmt.pos) <= 9
        /\ fmt.faults \cap {"divide by zero", "buf index", "digit", "buf slice"} = {}
        /\ "integer_part + 1" \notin fmt.faults

====
